---------------------------- MODULE Spec2Model ----------------------------
(***************************************************************************)
(* Marjapussi: trick legality / resolution engine (utils.py, card.py) and  *)
(* the agent's standing-cards analysis and observation dispatch (agent.py).*)
(*                                                                         *)
(* Python lists of cards are modelled as sequences where the order is read *)
(* by the code (a trick: its first card fixes the led suit) and as sets    *)
(* where the code only filters them (a hand, a pool, a result list).       *)
(* A call either returns a value or raises; both are kept in an outcome    *)
(* record [exc, val] with exc = "" for a normal return.                    *)
(***************************************************************************)
EXTENDS Integers, Sequences, FiniteSets, TLC

VARIABLES
    fn,             \* which function the harness applies, "" in the tracker
    pc,             \* "call" before the function is applied, "done" after
    trick,          \* allowed_general: trick / high_card: cards
    cards,          \* allowed_general: cards (the hand)
    trump,          \* trump colour, "" when no trump is declared
    first,          \* allowed_general: first
    base,           \* higher_cards: base
    pool,           \* higher_cards: pool
    possible,       \* _standing_cards: possible (suit -> cards)
    player_hand,    \* _standing_cards: player_hand
    ret,            \* outcome of the applied function
    possible_cards, \* GameState.possible_cards: other player -> cards
    secure_cards,   \* GameState.secure_cards: other player -> cards
    phase,          \* GameState.phase: phase of the last observed action
    playing_party,  \* GameState.playing_party
    n_actions,      \* len(GameState.actions)
    game            \* the game the agent observes: hands, turn, stage, budgets

trackerVars == <<possible_cards, secure_cards, phase, playing_party,
                 n_actions, game>>

vars == <<fn, pc, trick, cards, trump, first, base, pool, possible,
          player_hand, ret, trackerVars>>

---------------------------------------------------------------------------
(* Card model: utils.py 3-6, card.py.  Card.__init__ and is_higher_than    *)
(* read COLORS and VALUES, which utils.py alone defines; they are taken to *)
(* name those lists.  Card defines __eq__ and __hash__ and no ordering.    *)

COLORS == <<"r", "s", "e", "g">>
VALUES == <<"A", "Z", "K", "O", "U", "9", "8", "7", "6">>

ColorSet == {COLORS[i] : i \in 1..Len(COLORS)}
ValueSet == {VALUES[i] : i \in 1..Len(VALUES)}

Card(c, v) == [color |-> c, value |-> v]

CARDS == {Card(c, v) : c \in ColorSet, v \in ValueSet}

\* Python's None, kept in the shape of a card so that TLC can compare it
None == [color |-> "None", value |-> "None"]

\* list.index, 0-based as in Python
ColorIndex(c) == (CHOOSE i \in 1..Len(COLORS) : COLORS[i] = c) - 1
ValueIndex(v) == (CHOOSE i \in 1..Len(VALUES) : VALUES[i] = v) - 1

is_higher_than(self, other) == ValueIndex(self.value) > ValueIndex(other.value)

\* key of sorted_cards; fixes the order in which a hand is laid out as a list
SortKey(c) == ColorIndex(c.color) * Len(VALUES) + ValueIndex(c.value)

RECURSIVE sorted_cards(_)
sorted_cards(S) ==
    IF S = {} THEN <<>>
    ELSE LET c == CHOOSE x \in S : \A y \in S : SortKey(x) <= SortKey(y)
         IN <<c>> \o sorted_cards(S \ {c})

Range(s) == {s[i] : i \in 1..Len(s)}

\* outcomes of a call
Return(v) == [exc |-> "", val |-> v]
Raise(e)  == [exc |-> e, val |-> None]
RaiseL(e) == [exc |-> e, val |-> {}]

---------------------------------------------------------------------------
(* Legality engine and trick resolver: utils.py                            *)

\* variant: the Green rule is tried before the Ace rule
allowed_first_GreenFirst(hand) ==
    LET aces   == {c \in hand : c.value = "A"}
        greens == {c \in hand : c.color = "g"}
    IN  IF greens # {} THEN greens
        ELSE IF aces # {} THEN aces
        ELSE hand

allowed_first(hand) ==
    LET aces   == {c \in hand : c.value = "A"}
        greens == {c \in hand : c.color = "g"}
    IN  IF aces # {} THEN aces
        ELSE IF greens # {} THEN greens
        ELSE hand

\* max(seq, default=None) with no key: one element is returned as is, two
\* or more are compared with '>', which Card (card.py) does not define.
MaxNoKey(s) ==
    IF Len(s) = 0 THEN Return(None)
    ELSE IF Len(s) = 1 THEN Return(s[1])
    ELSE Raise("TypeError")

\* max(seq, default=d, key=lambda card: card.VALUES.index(card.value)):
\* the default is returned for an empty seq without calling the key; the
\* key is called on every element otherwise, and Card has no attribute
\* VALUES (card.py 1-28 defines COLOR_NAMES, color, value only).
MaxWithKey(s, d) ==
    IF Len(s) = 0 THEN Return(d)
    ELSE Raise("AttributeError")

high_card(cs, tr) ==
    IF cs = <<>> THEN Return(None)
    ELSE LET col == cs[1].color
             base_col_cards == SelectSeq(cs, LAMBDA c : c.color = col)
             trump_cards == SelectSeq(cs, LAMBDA c : c.color = tr)
             dflt == MaxNoKey(base_col_cards)   \* argument, evaluated first
         IN  IF dflt.exc # "" THEN dflt
             ELSE MaxWithKey(trump_cards, dflt.val)

\* variant: the first-trick check looks for any Ace, not the led suit's
allowed_general_AnyAce(tk, hand, tr, fst) ==
    IF Len(tk) = 0 /\ fst THEN Return(allowed_first(hand))
    ELSE IF tk = <<>> THEN Return(hand)
    ELSE LET trick_col == tk[1].color
             ace == {c \in hand : c.value = "A"}
             follow == {c \in hand : c.color = trick_col}
             allowed == IF follow # {} THEN follow
                        ELSE {c \in hand : c.color = tr}
             high == high_card(tk \o sorted_cards(allowed), tr)
         IN  IF fst /\ ace # {} THEN Return(ace)
             ELSE IF high.exc # "" THEN RaiseL(high.exc)
             ELSE LET allowed2 == IF high.val \in allowed THEN {high.val}
                                  ELSE allowed
                  IN  Return(IF allowed2 # {} THEN allowed2 ELSE hand)

allowed_general(tk, hand, tr, fst) ==
    IF Len(tk) = 0 /\ fst THEN Return(allowed_first(hand))
    ELSE IF tk = <<>> THEN Return(hand)
    ELSE LET trick_col == tk[1].color
             ace == {c \in hand : c.color = trick_col /\ c.value = "A"}
             follow == {c \in hand : c.color = trick_col}
             allowed == IF follow # {} THEN follow
                        ELSE {c \in hand : c.color = tr}
             high == high_card(tk \o sorted_cards(allowed), tr)
         IN  IF fst /\ ace # {} THEN Return(ace)
             ELSE IF high.exc # "" THEN RaiseL(high.exc)
             ELSE LET allowed2 == IF high.val \in allowed THEN {high.val}
                                  ELSE allowed
                  IN  Return(IF allowed2 # {} THEN allowed2 ELSE hand)

higher_cards(b, tr, pl) ==
    IF tr = "" THEN
        {c \in pl : is_higher_than(c, b) /\ b.color = c.color}
    ELSE
        {c \in pl : (is_higher_than(c, b) /\ b.color = c.color) \/ c.color = tr}


contains_pair(cs, col) ==
    /\ \E c \in cs : c.color = col /\ c.value = "K"
    /\ \E c \in cs : c.color = col /\ c.value = "O"

contains_half(cs, col) ==
    \E c \in cs : c.color = col /\ (c.value = "K" \/ c.value = "O")

all_color_cards(col) == {Card(col, v) : v \in ValueSet}

---------------------------------------------------------------------------
(* Standing-cards analysis: agent.py 97-129.  The Card it reads has the    *)
(* attributes suit and rank, which card.py does not define; they are taken *)
(* from the design's card model: suit is the colour, rank grows with the   *)
(* position in the ascending-strength order.                               *)

suit(c) == c.color
rank(c) == ValueIndex(c.value)

\* max(cs, key=lambda card: card.rank) for a non-empty cs
MaxByRank(cs) == CHOOSE c \in cs : \A d \in cs : rank(d) <= rank(c)

\* sorted(cs, key=rank, reverse=True)[:n]
TopByRank(cs, n) == {c \in cs : Cardinality({d \in cs : rank(d) > rank(c)}) < n}

\* variant: the comparison with the highest possible card is reversed
StandingInSuit_Reversed(poss, hand, s) ==
    LET cards_in_hand == {c \in hand : suit(c) = s}
        possible_of_suit == poss[s]
        highest_in_hand == MaxByRank(cards_in_hand)
        byHighest ==
            IF possible_of_suit # {}
               /\ rank(highest_in_hand) <= rank(MaxByRank(possible_of_suit))
            THEN {highest_in_hand} ELSE {}
        nHand == Cardinality(cards_in_hand)
        nPoss == Cardinality(possible_of_suit)
        additional ==
            IF nHand > nPoss THEN TopByRank(cards_in_hand, nHand - nPoss)
            ELSE {}
    IN  byHighest \cup additional

StandingInSuit(poss, hand, s) ==
    LET cards_in_hand == {c \in hand : suit(c) = s}
        possible_of_suit == poss[s]
        highest_in_hand == MaxByRank(cards_in_hand)
        byHighest ==
            IF possible_of_suit # {}
               /\ rank(highest_in_hand) >= rank(MaxByRank(possible_of_suit))
            THEN {highest_in_hand} ELSE {}
        nHand == Cardinality(cards_in_hand)
        nPoss == Cardinality(possible_of_suit)
        additional ==
            IF nHand > nPoss THEN TopByRank(cards_in_hand, nHand - nPoss)
            ELSE {}
    IN  byHighest \cup additional

\* variant: every trump card of the hand is reported, not only the highest
_standing_cards_AllTrumps(poss, hand, trump_suit) ==
    IF trump_suit # "" THEN {c \in hand : suit(c) = trump_suit}
    ELSE UNION {StandingInSuit(poss, hand, s) : s \in {suit(c) : c \in hand}}

_standing_cards(poss, hand, trump_suit) ==
    IF trump_suit # "" THEN
        LET trump_cards_in_hand == {c \in hand : suit(c) = trump_suit}
        IN  IF trump_cards_in_hand # {} THEN {MaxByRank(trump_cards_in_hand)}
            ELSE {}
    ELSE
        UNION {StandingInSuit(poss, hand, s) : s \in {suit(c) : c \in hand}}

---------------------------------------------------------------------------
(* Inputs of the function harnesses                                        *)

MaxTrick   == 3     \* cards already in the trick
MaxHand    == 3     \* cards in the hand
MaxCards   == 3     \* cards handed to high_card
MaxMissing == 1     \* cards of the deck missing from the pool
MaxPoss    == 2     \* cards the opponents may still hold

InputCards ==
    { Card("r", "A"), Card("r", "Z"), Card("r", "K"), Card("r", "7"),
      Card("g", "K"), Card("g", "A"), Card("s", "7"), Card("s", "6"),
      Card("e", "U"), Card("e", "A") }

Trumps == ColorSet \cup {""}

\* sequences of pairwise distinct cards of D, of length at most n
RECURSIVE DistinctSeqs(_, _)
DistinctSeqs(D, n) ==
    IF n = 0 THEN {<<>>}
    ELSE LET shorter == DistinctSeqs(D, n - 1)
         IN  shorter \cup
             UNION {{Append(s, c) : c \in D \ Range(s)} :
                        s \in {t \in shorter : Len(t) = n - 1}}

\* subsets of D with at most n elements
RECURSIVE SubsetsUpTo(_, _)
SubsetsUpTo(D, n) ==
    IF n = 0 THEN {{}}
    ELSE LET smaller == SubsetsUpTo(D, n - 1)
         IN  smaller \cup UNION {{S \cup {c} : c \in D \ S} : S \in smaller}

NoCards == {}
NoPossible == [s \in ColorSet |-> {}]
Pending == [exc |-> "pending", val |-> {}]

\* the variables a specification does not use
Idle(used) ==
    /\ "trick" \in used \/ trick = <<>>
    /\ "cards" \in used \/ cards = NoCards
    /\ "trump" \in used \/ trump = ""
    /\ "first" \in used \/ first = FALSE
    /\ "base" \in used \/ base = None
    /\ "pool" \in used \/ pool = NoCards
    /\ "possible" \in used \/ possible = NoPossible
    /\ "player_hand" \in used \/ player_hand = NoCards
    /\ "tracker" \in used \/
          /\ possible_cards = <<>>
          /\ secure_cards = <<>>
          /\ phase = ""
          /\ playing_party = <<>>
          /\ n_actions = 0
          /\ game = <<>>

---------------------------------------------------------------------------
(* Legality engine: allowed_general applied to a drawn trick and hand      *)

InitLegal ==
    /\ fn = "allowed_general"
    /\ pc = "call"
    /\ trick \in DistinctSeqs(InputCards, MaxTrick)
    /\ cards \in SubsetsUpTo(InputCards \ Range(trick), MaxHand)
    /\ trump \in Trumps
    /\ first \in BOOLEAN
    /\ ret = Pending
    /\ Idle({"trick", "cards", "trump", "first"})

CallAllowedGeneral ==
    /\ fn = "allowed_general"
    /\ pc = "call"
    /\ ret' = allowed_general(trick, cards, trump, first)
    /\ pc' = "done"
    /\ UNCHANGED <<fn, trick, cards, trump, first, base, pool, possible,
                   player_hand, trackerVars>>

SpecLegal == InitLegal /\ [][CallAllowedGeneral]_vars

---------------------------------------------------------------------------
(* Trick resolver: high_card applied to a drawn sequence of cards          *)

InitWinner ==
    /\ fn = "high_card"
    /\ pc = "call"
    /\ trick \in DistinctSeqs(InputCards, MaxCards)
    /\ trump \in Trumps
    /\ ret = Pending
    /\ Idle({"trick", "trump"})

CallHighCard ==
    /\ fn = "high_card"
    /\ pc = "call"
    /\ ret' = high_card(trick, trump)
    /\ pc' = "done"
    /\ UNCHANGED <<fn, trick, cards, trump, first, base, pool, possible,
                   player_hand, trackerVars>>

SpecWinner == InitWinner /\ [][CallHighCard]_vars

---------------------------------------------------------------------------
(* Constraint pool: higher_cards applied to a drawn base, trump and pool   *)

InitBeating ==
    /\ fn = "higher_cards"
    /\ pc = "call"
    /\ base \in CARDS
    /\ trump \in Trumps
    /\ pool \in {CARDS \ X : X \in SubsetsUpTo(CARDS, MaxMissing)}
    /\ ret = Pending
    /\ Idle({"base", "trump", "pool"})

CallHigherCards ==
    /\ fn = "higher_cards"
    /\ pc = "call"
    /\ ret' = Return(higher_cards(base, trump, pool))
    /\ pc' = "done"
    /\ UNCHANGED <<fn, trick, cards, trump, first, base, pool, possible,
                   player_hand, trackerVars>>

SpecBeating == InitBeating /\ [][CallHigherCards]_vars

---------------------------------------------------------------------------
(* Standing cards: _standing_cards applied to a drawn hand and to the      *)
(* cards the opponents may still hold, keyed by suit                       *)

InitStanding ==
    /\ fn = "_standing_cards"
    /\ pc = "call"
    /\ player_hand \in SubsetsUpTo(InputCards, MaxHand)
    /\ \E opp \in SubsetsUpTo(InputCards \ player_hand, MaxPoss) :
          possible = [s \in ColorSet |-> {c \in opp : suit(c) = s}]
    /\ trump \in Trumps
    /\ ret = Pending
    /\ Idle({"player_hand", "possible", "trump"})

CallStandingCards ==
    /\ fn = "_standing_cards"
    /\ pc = "call"
    /\ ret' = Return(_standing_cards(possible, player_hand, trump))
    /\ pc' = "done"
    /\ UNCHANGED <<fn, trick, cards, trump, first, base, pool, possible,
                   player_hand, trackerVars>>

SpecStanding == InitStanding /\ [][CallStandingCards]_vars


---------------------------------------------------------------------------
(* Properties of the legality engine (SpecLegal)                           *)

LegalDone == fn = "allowed_general" /\ pc = "done"
Following == LegalDone /\ trick # <<>>
Leading   == LegalDone /\ trick = <<>>
LedSuit   == trick[1].color
HeldLed   == {c \in cards : c.color = LedSuit}
HeldTrump == {c \in cards : c.color = trump}
LedAce    == Card(LedSuit, "A")

\* the resolver as the design states it: the highest trump if any card is
\* trump, else the highest card of the first card's suit; None when empty
Strongest(S) == CHOOSE c \in S : \A d \in S : ValueIndex(d.value) <= ValueIndex(c.value)
Winner(cs, tr) ==
    IF cs = <<>> THEN None
    ELSE LET trumps == {c \in Range(cs) : c.color = tr}
             led    == {c \in Range(cs) : c.color = cs[1].color}
         IN  IF trumps # {} THEN Strongest(trumps) ELSE Strongest(led)

\* C1: for every trick, every non-empty hand, every trump and both values
\* of the first-trick flag, allowed_general returns a non-empty set of cards.
C1_NeverEmpty ==
    (LegalDone /\ cards # {}) => (ret.exc = "" /\ ret.val # {})

\* C2: when following and the first-trick Ace rule does not apply, with S
\* the follow subset (held led-suit cards, else held trump cards) and w the
\* winner of the trick followed by S: the legal set is {w} if w is in S and
\* S otherwise; Red-A led, hand {Red-Z, Red-7}, no trump gives {Red-7}.
C2_ForcedOvertake ==
    (Following /\ cards # {} /\ ~(first /\ LedAce \in cards)) =>
        LET S == IF HeldLed # {} THEN HeldLed ELSE HeldTrump
            w == Winner(trick \o sorted_cards(S), trump)
        IN  /\ S # {} => /\ ret.exc = ""
                         /\ ret.val = (IF w \in S THEN {w} ELSE S)
            /\ (/\ trick = <<Card("r", "A")>>
                /\ cards = {Card("r", "Z"), Card("r", "7")}
                /\ trump = "")
               => ret = Return({Card("r", "7")})

\* C3: when following, the legal set holds only led-suit cards if the hand
\* has any, else only trump cards if the hand has any, else it is the hand.
C3_FollowSuit ==
    (Following /\ cards # {}) =>
        /\ ret.exc = ""
        /\ HeldLed # {} => \A c \in ret.val : c.color = LedSuit
        /\ (HeldLed = {} /\ HeldTrump # {}) => \A c \in ret.val : c.color = trump
        /\ (HeldLed = {} /\ HeldTrump = {}) => ret.val = cards

\* C4: when following in the first trick with the Ace of the led suit in
\* hand, the legal set is exactly that Ace, whatever the trump, the rest of
\* the hand and the trick.
C4_FirstTrickAce ==
    (Following /\ first /\ LedAce \in cards) => ret = Return({LedAce})

C4_Witness ==
    /\ Following /\ first /\ Len(trick) = 2
    /\ trick[1] = Card("r", "K") /\ trump = "r"
    /\ {Card("r", "A"), Card("r", "7"), Card("g", "A")} \subseteq cards
    /\ ret = Return({Card("r", "A")})

\* C5: when leading, the first trick of the deal allows the Aces of the
\* hand if it has any, else its Green cards if it has any, else the whole
\* hand; a later trick allows the whole hand.  {Red-A, Green-K, Bells-7}
\* gives {Red-A} and {Bells-7, Green-K} gives {Green-K}.
C5_Lead ==
    Leading =>
        /\ ret.exc = ""
        /\ ~first => ret.val = cards
        /\ first =>
            LET aces   == {c \in cards : c.value = "A"}
                greens == {c \in cards : c.color = "g"}
            IN  /\ aces # {} => ret.val = aces
                /\ (aces = {} /\ greens # {}) => ret.val = greens
                /\ (aces = {} /\ greens = {}) => ret.val = cards
        /\ (first /\ cards = {Card("r", "A"), Card("g", "K"), Card("s", "7")})
              => ret.val = {Card("r", "A")}
        /\ (first /\ cards = {Card("s", "7"), Card("g", "K")})
              => ret.val = {Card("g", "K")}

C5_Witness ==
    /\ Leading /\ first
    /\ cards = {Card("r", "A"), Card("g", "K"), Card("s", "7")}
    /\ ret = Return({Card("r", "A")})

---------------------------------------------------------------------------
(* Properties of the trick resolver (SpecWinner)                           *)

\* C6: high_card returns None for an empty sequence; otherwise the trump
\* card with the greatest index in VALUES if any card is trump, else the
\* card of the first card's suit with the greatest index; so the winner of
\* a single card is that card and the winner is one of the input cards.
C6_Winner ==
    (fn = "high_card" /\ pc = "done") =>
        /\ ret = Return(Winner(trick, trump))
        /\ trick # <<>> => ret.val \in Range(trick)
        /\ Len(trick) = 1 => ret.val = trick[1]

---------------------------------------------------------------------------
(* Properties of the constraint pool (SpecBeating)                         *)

\* C7: higher_cards returns exactly the pool cards of base's suit strictly
\* higher than base, plus every trump card of the pool only if a trump is
\* declared and base is not of the trump suit; base is never in the result;
\* Red-K, no trump, full deck gives {Red-O, Red-U, Red-9, Red-8, Red-7, Red-6}.
C7_Beating ==
    (fn = "higher_cards" /\ pc = "done") =>
        LET above  == {c \in pool : c.color = base.color
                          /\ ValueIndex(c.value) > ValueIndex(base.value)}
            trumps == IF trump # "" /\ base.color # trump
                      THEN {c \in pool : c.color = trump} ELSE {}
        IN  /\ ret.val = above \cup trumps
            /\ base \notin ret.val
            /\ (base = Card("r", "K") /\ trump = "" /\ pool = CARDS) =>
                  ret.val = {Card("r", v) : v \in {"O", "U", "9", "8", "7", "6"}}

---------------------------------------------------------------------------
(* Properties of the standing-cards analysis (SpecStanding)                *)

StandingDone == fn = "_standing_cards" /\ pc = "done"
Outranked(c) == \E p \in possible[suit(c)] : rank(p) > rank(c)
Owned(s) == {c \in player_hand : suit(c) = s}

---------------------------------------------------------------------------
(* Information tracker.  Agent.observe_action (agent.py 37-82) dispatches  *)
(* on the phase of the observed action to methods of GameState, which is   *)
(* not part of the sources; those methods follow the design's description  *)
(* of the tracker transitions (play, pass, signals).  The agent is player  *)
(* 0 of all_players.  The observed game is played with a small deck; its   *)
(* record `game` holds what the agent cannot see (the true hands) and the  *)
(* turn order, so that only legal, truthful actions are observed.  Of the  *)
(* legality rules only the ones the inference relies on are imposed on the *)
(* observed plays (follow the led suit if held, else trump if held), which *)
(* admits every play the full rules admit.                                 *)

MaxPass    == 1     \* cards passed in each direction
MaxSignals == 1     \* questions, answers and announcements in a deal
MaxProv    == 1     \* provocations in a deal

Players == 0..3
Me      == 0
Others  == Players \ {Me}

TDeck ==
    { Card("r", "K"), Card("r", "O"), Card("r", "6"),
      Card("g", "K"), Card("g", "O"), Card("g", "A"),
      Card("s", "7"), Card("s", "6") }

\* variant: the neighbour is taken for the partner
partner_num_Neighbour(player_num) == (player_num + 1) % 4

partner_num(player_num) == (player_num + 2) % 4

\* the other players' sets with player p's set replaced (the agent has none)
Update(sets, p, new) ==
    [q \in Others |-> IF q = p THEN new ELSE sets[q]]

\* player p's set, empty for the agent itself
Of(sets, p) == IF p \in Others THEN sets[p] ELSE {}

play_card(c, p) ==
    LET led      == IF trick = <<>> THEN "" ELSE trick[1].color
        offsuit  == trick # <<>> /\ c.color # led
        notrump  == offsuit /\ trump # "" /\ c.color # trump
        excluded == {c} \cup (IF offsuit THEN all_color_cards(led) ELSE {})
                        \cup (IF notrump THEN all_color_cards(trump) ELSE {})
    IN  /\ possible_cards' = Update(possible_cards, p, Of(possible_cards, p) \ excluded)
        /\ secure_cards' = Update(secure_cards, p, Of(secure_cards, p) \ {c})
        /\ cards' = IF p = Me THEN cards \ {c} ELSE cards
        /\ trick' = IF Len(trick) = 3 THEN <<>> ELSE Append(trick, c)
        /\ UNCHANGED trump

\* the sets after card c moves from the sender to the recipient
Moved(sets, c, sender, recipient) ==
    LET sent == Update(sets, sender, Of(sets, sender) \ {c})
    IN  Update(sent, recipient, Of(sent, recipient) \cup {c})

pass_card(c, sender, recipient) ==
    /\ possible_cards' = Moved(possible_cards, c, sender, recipient)
    /\ secure_cards' = Moved(secure_cards, c, sender, recipient)
    /\ cards' = IF recipient = Me THEN cards \cup {c}
                ELSE IF sender = Me THEN cards \ {c}
                ELSE cards
    /\ UNCHANGED <<trick, trump>>

\* a signal's constraint: the signalling player holds, or lacks, some cards
apply_constraint(k, p) ==
    /\ possible_cards' =
          IF k.kind = "holds"
          THEN Update(possible_cards, p, Of(possible_cards, p) \cup k.cards)
          ELSE IF k.kind = "lacks"
          THEN Update(possible_cards, p, Of(possible_cards, p) \ k.cards)
          ELSE possible_cards
    /\ secure_cards' =
          IF k.kind = "holds"
          THEN Update(secure_cards, p, Of(secure_cards, p) \cup k.cards)
          ELSE secure_cards
    /\ UNCHANGED <<cards, trick>>

ask_question(k, p)    == apply_constraint(k, p) /\ UNCHANGED trump
answer_question(k, p) == apply_constraint(k, p) /\ UNCHANGED trump
provoke(k, p)         == apply_constraint(k, p) /\ UNCHANGED trump

\* an announced pair declares its suit as trump if none is declared yet
announce_ansage(k, p) ==
    /\ apply_constraint(k, p)
    /\ trump' = IF trump = "" /\ k.kind = "holds" /\ k.cards # {}
                THEN (CHOOSE c \in k.cards : TRUE).color ELSE trump

observe_action(action) ==
    LET player_num == action.player_number
    IN  /\ phase' = action.phase
        /\ CASE action.phase = "TRCK" ->
                  /\ play_card(action.content, player_num)
                  /\ UNCHANGED playing_party
             [] action.phase \in {"PASS", "PBCK"} ->
                  /\ playing_party' =
                        IF action.phase = "PASS"
                        THEN <<player_num, partner_num(player_num)>>
                        ELSE playing_party
                  /\ pass_card(action.content, player_num, partner_num(player_num))
             [] action.phase = "QUES" ->
                  /\ ask_question(action.content, player_num)
                  /\ UNCHANGED playing_party
             [] action.phase = "ANSW" ->
                  /\ answer_question(action.content, player_num)
                  /\ UNCHANGED playing_party
             [] action.phase = "ANSA" ->
                  /\ announce_ansage(action.content, player_num)
                  /\ UNCHANGED playing_party
             [] action.phase = "PROV" ->
                  /\ provoke(action.content, player_num)
                  /\ UNCHANGED playing_party
        /\ n_actions' = n_actions + 1

Action(ph, p, content) == [phase |-> ph, player_number |-> p, content |-> content]

---------------------------------------------------------------------------
(* The observed game                                                       *)

Pair(s) == {Card(s, "K"), Card(s, "O")}
NoConstraint == [kind |-> "none", cards |-> {}]

\* the pair announcements player p can truthfully make
PairsOf(p) ==
    {[kind |-> "holds", cards |-> Pair(s)] :
         s \in {t \in ColorSet : contains_pair(game.hands[p], t)}}

\* a bid may tell of an Ace held
BidConstraints(p) ==
    {NoConstraint}
    \cup {[kind |-> "holds", cards |-> {c}] :
              c \in {d \in game.hands[p] : d.value = "A"}}

\* a question may tell of a half (a King or an Over) held
QuestionConstraints(p) ==
    {NoConstraint}
    \cup {[kind |-> "holds", cards |-> {c}] :
              c \in {d \in game.hands[p] : d.value \in {"K", "O"}}}

\* an answer may tell of a pair held, or of a suit with neither half
AnswerConstraints(p) ==
    {NoConstraint} \cup PairsOf(p)
    \cup {[kind |-> "lacks", cards |-> Pair(s)] :
              s \in {t \in ColorSet : ~contains_half(game.hands[p], t)}}

\* the hands of size n that can be dealt from D
Hands(D, n) == {S \in SUBSET D : Cardinality(S) = n}

\* the deals observed: the agent holds any hand; the remaining cards, laid
\* out in sorted order, are dealt in blocks to the other players, starting
\* with any of them
Deals ==
    LET n == Cardinality(TDeck) \div 4
        Block(rest, i) == {rest[j] : j \in (i * n + 1)..(i * n + n)}
    IN  { [p \in Players |->
              IF p = Me THEN h0
              ELSE Block(sorted_cards(TDeck \ h0), (p - 1 + r) % 3)] :
          h0 \in Hands(TDeck, n), r \in 0..2 }

\* rule 4 of the legality engine on the true hand
MayPlay(c, p) ==
    LET hand == game.hands[p]
        led  == IF game.trick = <<>> THEN "" ELSE game.trick[1].color
    IN  /\ c \in hand
        /\ \/ game.trick = <<>>
           \/ c.color = led
           \/ /\ \A d \in hand : d.color # led
              /\ \/ c.color = game.trump
                 \/ \A d \in hand : d.color # game.trump

TrackerHarnessIdle ==
    /\ pc = "" /\ first = FALSE /\ base = None /\ pool = NoCards
    /\ possible = NoPossible /\ player_hand = NoCards /\ ret = Pending

InitTracker ==
    /\ fn = "observe_action"
    /\ TrackerHarnessIdle
    /\ \E h \in Deals :
          /\ game = [hands |-> h, trick |-> <<>>, trump |-> "", turn |-> 0,
                     stage |-> "PROV", provs |-> 0, fwd |-> 0, back |-> 0,
                     signals |-> 0, asked |-> FALSE]
          /\ cards = h[Me]
          /\ possible_cards = [p \in Others |-> TDeck \ h[Me]]
    /\ secure_cards = [p \in Others |-> {}]
    /\ trick = <<>>
    /\ trump = ""
    /\ phase = ""
    /\ playing_party = <<>>
    /\ n_actions = 0

HarnessUnchanged == UNCHANGED <<fn, pc, first, base, pool, possible, player_hand, ret>>

ObservePROV ==
    /\ fn = "observe_action"
    /\ game.stage = "PROV" /\ game.provs < MaxProv
    /\ \E p \in Players : \E k \in BidConstraints(p) :
          observe_action(Action("PROV", p, k))
    /\ game' = [game EXCEPT !.provs = @ + 1]
    /\ HarnessUnchanged

ObservePASS ==
    /\ fn = "observe_action"
    /\ game.stage \in {"PROV", "PASS"} /\ game.fwd < MaxPass
    /\ \E p \in Players : \E c \in game.hands[p] :
          /\ game.stage = "PASS" => p = game.turn
          /\ observe_action(Action("PASS", p, c))
          /\ game' = [game EXCEPT
                        !.hands = [@ EXCEPT ![p] = @ \ {c},
                                            ![(p + 2) % 4] = @ \cup {c}],
                        !.turn = p, !.stage = "PASS", !.fwd = @ + 1]
    /\ HarnessUnchanged

ObservePBCK ==
    /\ fn = "observe_action"
    /\ game.stage \in {"PASS", "PBCK"} /\ game.back < game.fwd
    /\ LET p == (game.turn + 2) % 4
       IN  \E c \in game.hands[p] :
              /\ observe_action(Action("PBCK", p, c))
              /\ game' = [game EXCEPT
                            !.hands = [@ EXCEPT ![p] = @ \ {c},
                                                ![game.turn] = @ \cup {c}],
                            !.back = @ + 1,
                            !.stage = IF game.back + 1 = game.fwd
                                      THEN "TRCK" ELSE "PBCK"]
    /\ HarnessUnchanged

ObserveTRCK ==
    /\ fn = "observe_action"
    /\ game.stage = "TRCK" /\ ~game.asked
    /\ LET p == game.turn
       IN  \E c \in game.hands[p] :
              /\ MayPlay(c, p)
              /\ observe_action(Action("TRCK", p, c))
              /\ LET full   == Append(game.trick, c)
                     leader == (p + 4 - Len(game.trick)) % 4
                     win    == Winner(full, game.trump)
                     winpos == CHOOSE i \in 1..4 : full[i] = win
                 IN  game' = [game EXCEPT
                                !.hands = [@ EXCEPT ![p] = @ \ {c}],
                                !.trick = IF Len(full) = 4 THEN <<>> ELSE full,
                                !.turn = IF Len(full) = 4
                                         THEN (leader + winpos - 1) % 4
                                         ELSE (p + 1) % 4]
    /\ HarnessUnchanged

ObserveQUES ==
    /\ fn = "observe_action"
    /\ game.stage = "TRCK" /\ game.trick = <<>> /\ ~game.asked
    /\ game.signals < MaxSignals
    /\ \E k \in QuestionConstraints(game.turn) :
          observe_action(Action("QUES", game.turn, k))
    /\ game' = [game EXCEPT !.signals = @ + 1, !.asked = TRUE]
    /\ HarnessUnchanged

ObserveANSW ==
    /\ fn = "observe_action"
    /\ game.stage = "TRCK" /\ game.asked
    /\ LET p == (game.turn + 2) % 4
       IN  \E k \in AnswerConstraints(p) : observe_action(Action("ANSW", p, k))
    /\ game' = [game EXCEPT !.asked = FALSE]
    /\ HarnessUnchanged

ObserveANSA ==
    /\ fn = "observe_action"
    /\ game.stage = "TRCK" /\ game.trick = <<>> /\ ~game.asked
    /\ game.signals < MaxSignals
    /\ \E k \in PairsOf(game.turn) :
          /\ observe_action(Action("ANSA", game.turn, k))
          /\ game' = [game EXCEPT
                        !.signals = @ + 1,
                        !.trump = IF @ = "" THEN (CHOOSE c \in k.cards : TRUE).color
                                  ELSE @]
    /\ HarnessUnchanged

NextTracker ==
    \/ ObservePROV
    \/ ObservePASS
    \/ ObservePBCK
    \/ ObserveTRCK
    \/ ObserveQUES
    \/ ObserveANSW
    \/ ObserveANSA

SpecTracker == InitTracker /\ [][NextTracker]_vars

---------------------------------------------------------------------------
(* Properties of the information tracker (SpecTracker)                     *)

\* C10: after any sequence of observed events from deal initialisation,
\* secure_cards[p] is a subset of possible_cards[p] for every other player p.
C10_SecureWithinPossible ==
    fn = "observe_action" =>
        \A p \in Others : secure_cards[p] \subseteq possible_cards[p]

\* a player who holds a card known from a pass has just played off-suit,
\* with a trump declared, and lost the led suit from the possible cards
C10_Witness ==
    /\ fn = "observe_action" /\ phase = "TRCK" /\ trump # ""
    /\ Len(trick) >= 2 /\ trick[Len(trick)].color # trick[1].color
    /\ LET p == (game.turn + 3) % 4
       IN  /\ p \in Others
           /\ secure_cards[p] # {}
           /\ possible_cards[p] \cap all_color_cards(trick[1].color) = {}
           /\ possible_cards[p] # {}

===========================================================================
